---- MODULE Spec2Model ----
(***************************************************************************)
(* DigiRP (src/rp.py, class DiscordRPApp): the presence session            *)
(* (connect / update_presence / disconnect / keep_alive), the mapping of   *)
(* the form's fields to the kwargs of Presence.update, and the             *)
(* last-session config file.                                               *)
(*                                                                         *)
(* Text is a sequence of one-character strings, so that str.strip, int()   *)
(* and slicing are computed and not assumed.                               *)
(***************************************************************************)
EXTENDS Integers, Sequences, FiniteSets, TLC

VARIABLES
    rpc,              \* self.rpc: "None", or the state of the Presence object it refers to
    connected,        \* self.connected
    running,          \* self.running
    start_timestamp,  \* self.start_timestamp (NoTimestamp for None)
    entries,          \* the text of the thirteen Entry widgets, by config key
    show_timestamp,   \* self.show_timestamp (BooleanVar)
    timestamp_type,   \* self.timestamp_type (StringVar)
    connect_btn,      \* ModernButton.enabled of the three session buttons
    update_btn,
    disconnect_btn,
    threads,          \* number of keep_alive threads that have not returned
    stopping,         \* how many of them were started before disconnect last cleared self.running
    config_file,      \* content of digirp_config.json
    now,              \* int(time.time())
    window,           \* the root window: "open", or "destroyed" once the program has exited
    preset_files,     \* content of the files the preset dialogs can name
    saved,            \* by file name, the form at the latest save_preset that wrote it
    last              \* what the handler run by the latest step did

vars == <<rpc, connected, running, start_timestamp, entries, show_timestamp,
          timestamp_type, connect_btn, update_btn, disconnect_btn, threads,
          stopping,
          config_file, now, window, preset_files, saved, last>>

session == <<rpc, connected, running, start_timestamp>>
formVars == <<entries, show_timestamp, timestamp_type>>
buttonVars == <<connect_btn, update_btn, disconnect_btn>>
presetVars == <<preset_files, saved>>

----------------------------------------------------------------------------
(* Bounds of the model *)

MaxTime == 1
MaxThreads == 2
LongLabelLen == 40

(* Constants of the program *)

LabelLimit == 32
RemainingHorizon == 3600
NoTimestamp == -1

----------------------------------------------------------------------------
(* Text *)

IsSpace(c) == c = " "

RECURSIVE LStrip(_)
LStrip(s) == IF s # <<>> /\ IsSpace(Head(s)) THEN LStrip(Tail(s)) ELSE s

RECURSIVE RStrip(_)
RStrip(s) ==
    IF s # <<>> /\ IsSpace(s[Len(s)]) THEN RStrip(SubSeq(s, 1, Len(s) - 1)) ELSE s

\* str.strip()
Strip(s) == RStrip(LStrip(s))

\* the truth value of a str: non-empty
Truthy(s) == s # <<>>

\* s[:n]
Prefix(s, n) == SubSeq(s, 1, IF Len(s) < n THEN Len(s) ELSE n)

Digits == {"0", "1", "2", "3", "4", "5", "6", "7", "8", "9"}

DigitValue(c) ==
    CASE c = "0" -> 0 [] c = "1" -> 1 [] c = "2" -> 2 [] c = "3" -> 3
      [] c = "4" -> 4 [] c = "5" -> 5 [] c = "6" -> 6 [] c = "7" -> 7
      [] c = "8" -> 8 [] c = "9" -> 9

Unsigned(s) == IF s # <<>> /\ Head(s) \in {"+", "-"} THEN Tail(s) ELSE s

\* int(s) returns (does not raise ValueError): optional whitespace around an
\* optionally signed, non-empty run of digits
IsInt(s) ==
    LET u == Unsigned(Strip(s))
    IN  u # <<>> /\ \A i \in 1..Len(u) : u[i] \in Digits

RECURSIVE DigitsValue(_)
DigitsValue(u) ==
    IF u = <<>> THEN 0
    ELSE 10 * DigitsValue(SubSeq(u, 1, Len(u) - 1)) + DigitValue(u[Len(u)])

\* int(s), where IsInt(s)
IntOf(s) ==
    LET t == Strip(s)
        v == DigitsValue(Unsigned(t))
    IN  IF Head(t) = "-" THEN 0 - v ELSE v

RECURSIVE Repeat(_, _)
Repeat(c, n) == IF n = 0 THEN <<>> ELSE <<c>> \o Repeat(c, n - 1)

----------------------------------------------------------------------------
(* The form *)

EntryKeys ==
    {"client_id", "details", "state", "large_key", "large_text", "small_key",
     "small_text", "button1_text", "button1_url", "button2_text", "button2_url",
     "party_size", "party_max"}

Playing == <<"P", "l", "a", "y", "i", "n", "g">>
Solo == <<"S", "o", "l", "o">>

\* button labels of LabelLimit characters, of LongLabelLen characters, and of
\* LongLabelLen characters of which the first is a space
ExactLabel == Repeat("M", LabelLimit)
LongLabel == <<"a">> \o Repeat("L", LongLabelLen - 1)
PaddedLongLabel == <<" ", "a">> \o Repeat("L", LongLabelLen - 2)

\* what the user may type into each Entry
Values(k) ==
    CASE k = "client_id" -> {<<>>, <<" ">>, <<"1">>}
      [] k \in {"details", "state"} -> {<<>>, <<" ">>, <<" ", "h", "i", " ">>}
      [] k \in {"large_key", "small_key"} -> {<<>>, <<" ">>, <<"k", " ">>}
      [] k \in {"large_text", "small_text"} -> {<<>>, <<" ">>, <<" ", "t">>}
      [] k \in {"party_size", "party_max"} ->
            {<<>>, <<" ">>, <<"2">>, <<" ", "5">>, <<"x">>}
      [] k \in {"button1_text", "button2_text"} ->
            {<<>>, <<" ">>, <<" ", "b">>, ExactLabel, LongLabel, PaddedLongLabel}
      [] k \in {"button1_url", "button2_url"} -> {<<>>, <<" ">>, <<"u", " ">>}

\* the widgets as create_ui leaves them
EmptyEntries == [k \in EntryKeys |-> <<>>]

\* party_max left out of the dictionary
get_current_config_NoPartyMax ==
    [k \in (EntryKeys \ {"party_max"}) \cup {"show_timestamp", "timestamp_type"} |->
        IF k = "show_timestamp" THEN show_timestamp
        ELSE IF k = "timestamp_type" THEN timestamp_type
        ELSE entries[k]]

\* get_current_config(): the dictionary of the fifteen fields
get_current_config ==
    [k \in EntryKeys \cup {"show_timestamp", "timestamp_type"} |->
        IF k = "show_timestamp" THEN show_timestamp
        ELSE IF k = "timestamp_type" THEN timestamp_type
        ELSE entries[k]]

\* the widgets' content
Form == [entries |-> entries, show_timestamp |-> show_timestamp,
         timestamp_type |-> timestamp_type]

\* dict.get(k, default)
Get(d, k, default) == IF k \in DOMAIN d THEN d[k] ELSE default

----------------------------------------------------------------------------
(* digirp_config.json *)

NoFile == [kind |-> "absent"]
CorruptFile == [kind |-> "corrupt"]
JsonFile(v) == [kind |-> "json", value |-> v]

FullConfig(e, show, type) ==
    [k \in EntryKeys \cup {"show_timestamp", "timestamp_type"} |->
        IF k = "show_timestamp" THEN show
        ELSE IF k = "timestamp_type" THEN type
        ELSE Get(e, k, <<>>)]

\* an Entry dictionary: the given fields, a client id, and every other field empty
Filled(e) == [k \in EntryKeys |-> IF k = "client_id" THEN <<"1">> ELSE Get(e, k, <<>>)]

OtherPair == {<<<<>>, <<>>>>, <<<<"s">>, <<"u">>>>, <<<<>>, <<"u">>>>}

\* forms that vary the two party fields (the other text as in the spec's scenario)
PartyForms ==
    { FullConfig(Filled([details |-> Playing, state |-> Solo,
                         party_size |-> size, party_max |-> max]), FALSE, "elapsed") :
        size \in Values("party_size"), max \in Values("party_max") }

\* forms that vary one image pair, beside an absent, a complete and a text-only other pair
ImageForms ==
    { FullConfig(Filled([large_key |-> p[1], large_text |-> p[2],
                         small_key |-> q[1], small_text |-> q[2]]), FALSE, "elapsed") :
        p \in Values("large_key") \X Values("large_text"), q \in OtherPair }
    \cup
    { FullConfig(Filled([large_key |-> q[1], large_text |-> q[2],
                         small_key |-> p[1], small_text |-> p[2]]), FALSE, "elapsed") :
        p \in Values("small_key") \X Values("small_text"), q \in OtherPair }

\* forms that vary the two text lines
TextForms ==
    { FullConfig(Filled([details |-> d, state |-> st]), FALSE, "elapsed") :
        d \in Values("details"), st \in Values("state") }

\* forms that vary the timestamp settings
TimestampForms ==
    { FullConfig(Filled([details |-> Playing]), show, type) :
        show \in BOOLEAN, type \in {"elapsed", "remaining"} }

\* the form of the spec's scenario
ScenarioForm ==
    FullConfig(Filled([details |-> Playing, state |-> Solo,
                       party_size |-> <<"2">>, party_max |-> <<"5">>]), FALSE, "elapsed")

\* a button slot as typed: every short label with every url, and the labels of
\* LabelLimit characters and more with a url
SlotValues ==
    ({l \in Values("button1_text") : Len(l) < LabelLimit} \X Values("button1_url"))
    \cup ({l \in Values("button1_text") : Len(l) >= LabelLimit} \X {<<"u", " ">>})

OtherSlot == {<<<<>>, <<>>>>, <<<<"c">>, <<"v">>>>}

\* forms that vary one button slot, beside an empty and a complete other slot
ButtonForms ==
    { FullConfig(Filled([button1_text |-> p[1], button1_url |-> p[2],
                         button2_text |-> q[1], button2_url |-> q[2]]), FALSE, "elapsed") :
        p \in SlotValues, q \in OtherSlot }
    \cup
    { FullConfig(Filled([button1_text |-> q[1], button1_url |-> q[2],
                         button2_text |-> p[1], button2_url |-> p[2]]), FALSE, "elapsed") :
        p \in SlotValues, q \in OtherSlot }

SeedForms ==
    PartyForms \cup ImageForms \cup TextForms \cup TimestampForms
    \cup {ScenarioForm} \cup ButtonForms

\* files a previous run, or the user, may have left behind
SeedFiles ==
    {NoFile, CorruptFile, JsonFile([client_id |-> <<" ">>])}
    \cup {JsonFile(f) : f \in SeedForms}

\* an example config taken when there is no file to read
load_last_config_ExampleWhenNone(file) ==
    IF file.kind = "json" THEN [none |-> FALSE, value |-> file.value]
    ELSE [none |-> FALSE, value |-> [details |-> Playing]]

\* load_last_config(): self.last_config; None when the file is absent or
\* json.load raises
load_last_config(file) ==
    IF file.kind = "json" THEN [none |-> FALSE, value |-> file.value]
    ELSE [none |-> TRUE]

\* main(): `if hasattr(app, 'last_config') and app.last_config`
ShouldApply(cfg) == ~cfg.none /\ DOMAIN cfg.value # {}

\* apply_config(config): what it leaves in the Entry widgets and the two Tk variables
apply_config(config) ==
    [entries |-> [k \in EntryKeys |-> Get(config, k, <<>>)],
     show_timestamp |-> Get(config, "show_timestamp", FALSE),
     timestamp_type |-> Get(config, "timestamp_type", "elapsed")]

\* the form when the main loop starts: __init__, create_ui, then main()
StartupForm(file) ==
    IF ShouldApply(load_last_config(file))
    THEN apply_config(load_last_config(file).value)
    ELSE [entries |-> EmptyEntries, show_timestamp |-> FALSE,
          timestamp_type |-> "elapsed"]

\* save_last_config(): errors are swallowed; the file is rewritten when the write works
save_last_config(written) ==
    IF written THEN JsonFile(get_current_config) ELSE config_file

----------------------------------------------------------------------------
(* update_presence: the kwargs of Presence.update *)

NoKwargs == [k \in {} |-> <<>>]

Put(m, k, v) == [x \in DOMAIN m \cup {k} |-> IF x = k THEN v ELSE m[x]]

\* the text tested before it is stripped
PutText_TestsUnstripped(m, k, text) == IF Truthy(text) THEN Put(m, k, Strip(text)) ELSE m

\* the text sent as typed
PutText_SendsUnstripped(m, k, text) == IF Truthy(Strip(text)) THEN Put(m, k, text) ELSE m

PutText(m, k, text) == IF Truthy(Strip(text)) THEN Put(m, k, Strip(text)) ELSE m

\* the text's `if` moved out of the key's `if`
ImageKwargs_TextOutsideKey(m, imageKey, textKey, key, text) ==
    PutText(IF Truthy(Strip(key)) THEN Put(m, imageKey, Strip(key)) ELSE m,
            textKey, text)

ImageKwargs(m, imageKey, textKey, key, text) ==
    IF Truthy(Strip(key))
    THEN PutText(Put(m, imageKey, Strip(key)), textKey, text)
    ELSE m

\* "absent": no party_size; "invalid": int() raises ValueError; "ok"
PartyCase(size, max) ==
    IF Truthy(Strip(size)) /\ Truthy(Strip(max))
    THEN IF IsInt(size) /\ IsInt(max) THEN "ok" ELSE "invalid"
    ELSE "absent"

PartyKwargs(m, size, max) ==
    IF PartyCase(size, max) = "ok"
    THEN Put(m, "party_size", <<IntOf(size), IntOf(max)>>)
    ELSE m

\* the elapsed time counted from the update
TimestampKwargs_StartIsNow(m, show, type, start, t) ==
    IF show
    THEN IF type = "elapsed" THEN Put(m, "start", t)
         ELSE Put(m, "end", t + RemainingHorizon)
    ELSE m

TimestampKwargs(m, show, type, start, t) ==
    IF show
    THEN IF type = "elapsed" THEN Put(m, "start", start)
         ELSE Put(m, "end", t + RemainingHorizon)
    ELSE m

\* the label cut before it is stripped
Button_CutsBeforeStrip(label, url) ==
    IF Truthy(Strip(label)) /\ Truthy(Strip(url))
    THEN <<[label |-> Strip(Prefix(label, LabelLimit)), url |-> Strip(url)]>>
    ELSE <<>>

Button(label, url) ==
    IF Truthy(Strip(label)) /\ Truthy(Strip(url))
    THEN <<[label |-> Prefix(Strip(label), LabelLimit), url |-> Strip(url)]>>
    ELSE <<>>

\* `if buttons` left out
ButtonKwargs_KeyAlways(m, e) ==
    Put(m, "buttons", Button(e.button1_text, e.button1_url)
                      \o Button(e.button2_text, e.button2_url))

ButtonKwargs(m, e) ==
    LET buttons == Button(e.button1_text, e.button1_url)
                   \o Button(e.button2_text, e.button2_url)
    IN  IF buttons # <<>> THEN Put(m, "buttons", buttons) ELSE m

BuildKwargs(e, show, type, start, t) ==
    LET k1 == PutText(PutText(NoKwargs, "details", e.details), "state", e.state)
        k2 == ImageKwargs(k1, "large_image", "large_text", e.large_key, e.large_text)
        k3 == ImageKwargs(k2, "small_image", "small_text", e.small_key, e.small_text)
        k4 == PartyKwargs(k3, e.party_size, e.party_max)
        k5 == TimestampKwargs(k4, show, type, start, t)
    IN  ButtonKwargs(k5, e)

UpdateCall(ok, kwargs) == [fn |-> "update", ok |-> ok, kwargs |-> kwargs]

\* the guard with `not self.connected` left out
NotConnected_HandleOnly(conn, handle) == handle = "None"

\* `if not self.connected or not self.rpc`
NotConnected(conn, handle) == ~conn \/ handle = "None"

\* the config file written before Presence.update is called
update_presence_SavesBeforeUpdate(conn, handle, start, updated, written) ==
    LET kwargs == BuildKwargs(entries, show_timestamp, timestamp_type, start, now)
    IN  IF NotConnected(conn, handle)
        THEN [dialogs |-> <<"ConnectFirst">>, calls |-> <<>>, file |-> config_file,
              writes |-> <<>>]
        ELSE IF PartyCase(entries.party_size, entries.party_max) = "invalid"
        THEN [dialogs |-> <<"PartyInvalid">>, calls |-> <<>>, file |-> config_file,
              writes |-> <<>>]
        ELSE [dialogs |-> IF updated THEN <<>> ELSE <<"UpdateFailed">>,
              calls |-> <<UpdateCall(updated, kwargs)>>,
              file |-> save_last_config(written), writes |-> <<written>>]

\* update_presence() run with self.connected = conn, self.rpc = handle and
\* self.start_timestamp = start: the dialogs it shows, the calls it makes to the
\* Presence object, and the config file it leaves. updated: Presence.update returns;
\* written: the write of the config file works.
update_presence(conn, handle, start, updated, written) ==
    LET kwargs == BuildKwargs(entries, show_timestamp, timestamp_type, start, now)
    IN  IF NotConnected(conn, handle)
        THEN [dialogs |-> <<"ConnectFirst">>, calls |-> <<>>, file |-> config_file,
              writes |-> <<>>]
        ELSE IF PartyCase(entries.party_size, entries.party_max) = "invalid"
        THEN [dialogs |-> <<"PartyInvalid">>, calls |-> <<>>, file |-> config_file,
              writes |-> <<>>]
        ELSE IF updated
        THEN [dialogs |-> <<>>, calls |-> <<UpdateCall(TRUE, kwargs)>>,
              file |-> save_last_config(written), writes |-> <<written>>]
        ELSE [dialogs |-> <<"UpdateFailed">>, calls |-> <<UpdateCall(FALSE, kwargs)>>,
              file |-> config_file, writes |-> <<>>]

----------------------------------------------------------------------------
(* What the latest step did *)

Snapshot ==
    [rpc |-> rpc, connected |-> connected, running |-> running,
     start_timestamp |-> start_timestamp, threads |-> threads]

NoSnapshot ==
    [rpc |-> "None", connected |-> FALSE, running |-> FALSE,
     start_timestamp |-> NoTimestamp, threads |-> 0]

\* the latest step ran no handler
Idle ==
    [op |-> "none", dialogs |-> <<>>, calls |-> <<>>, pre |-> NoSnapshot,
     file |-> "", writes |-> <<>>]

\* main() has run to root.mainloop()
Started ==
    [op |-> "main", dialogs |-> <<>>, calls |-> <<>>, pre |-> NoSnapshot,
     file |-> "", writes |-> <<>>]

\* a handler has run: the dialogs it showed, its calls to the Presence object, the
\* file name its file dialog returned, and how its writes of the config file went
Did(op, dialogs, calls, file, writes) ==
    [op |-> op, dialogs |-> dialogs, calls |-> calls, pre |-> Snapshot,
     file |-> file, writes |-> writes]

Ran(op, dialogs, calls) == Did(op, dialogs, calls, "", <<>>)

----------------------------------------------------------------------------
(* The files of the preset dialogs *)

\* the file names the dialogs return; "" when the dialog is cancelled
PresetNames == {"a.json", "b.json"}
NoName == ""

\* a file of valid JSON that is not an object
NonObjectFile == [kind |-> "nonobject"]

NotSaved == [kind |-> "none"]

NoPresets == [n \in PresetNames |-> NoFile]

----------------------------------------------------------------------------
(* Initial state: DiscordRPApp.__init__, create_ui and main() *)

\* the program started beside one of the given files
InitWith(files, presets) ==
    /\ rpc = "None"
    /\ connected = FALSE
    /\ running = FALSE
    /\ start_timestamp = NoTimestamp
    /\ config_file \in files
    /\ entries = StartupForm(config_file).entries
    /\ show_timestamp = StartupForm(config_file).show_timestamp
    /\ timestamp_type = StartupForm(config_file).timestamp_type
    /\ connect_btn = TRUE
    /\ update_btn = FALSE
    /\ disconnect_btn = FALSE
    /\ threads = 0
    /\ stopping = 0
    /\ now = 0
    /\ window = "open"
    /\ preset_files \in presets
    /\ saved = [n \in PresetNames |-> NotSaved]
    /\ last = Started

Init == InitWith(SeedFiles, {NoPresets})

----------------------------------------------------------------------------
(* The user retypes an Entry *)

\* the Entry widgets the user retypes, which the model lets them do between two
\* sessions (the client id is read by connect alone)
Editable == {"client_id"}

EditEntry ==
    /\ window = "open"
    /\ ~connected
    /\ \E k \in Editable : \E v \in Values(k) :
          /\ entries[k] # v
          /\ entries' = [entries EXCEPT ![k] = v]
    /\ last' = Idle
    /\ UNCHANGED <<window, presetVars, session, buttonVars, show_timestamp, timestamp_type, threads, stopping,
                   config_file, now>>

\* time passes
Tick ==
    /\ now < MaxTime
    /\ now' = now + 1
    /\ last' = Idle
    /\ UNCHANGED <<window, presetVars, session, formVars, buttonVars, threads, stopping, config_file>>

----------------------------------------------------------------------------
(* connect *)

ConnectCall(ok) == [fn |-> "connect", ok |-> ok]

\* the client id tested without .strip()
ClientIdGiven_NoStrip == Truthy(entries.client_id)

\* `client_id = self.client_id.get().strip()`, `if not client_id` does not return
ClientIdGiven == Truthy(Strip(entries.client_id))

\* the dialog of connect's `except`: by the signature found in str(e)
ConnectErrorDialog(signature) ==
    IF signature THEN "DiscordNotRunning" ELSE "ConnectFailed"

\* `if not client_id`: showerror and return
ConnectBlank ==
    /\ ~ClientIdGiven
    /\ last' = Ran("connect", <<"ClientIdMissing">>, <<>>)
    /\ UNCHANGED <<window, presetVars, session, formVars, buttonVars, threads, stopping, config_file, now>>

\* Presence(client_id) raises: self.rpc is not assigned
ConnectConstructorRaises(signature) ==
    /\ ClientIdGiven
    /\ last' = Ran("connect", <<ConnectErrorDialog(signature)>>, <<>>)
    /\ UNCHANGED <<window, presetVars, session, formVars, buttonVars, threads, stopping, config_file, now>>

\* self.connected set before self.rpc.connect() is called
ConnectRaises_FlagSetFirst(signature) ==
    /\ ClientIdGiven
    /\ rpc' = "unconnected"
    /\ connected' = TRUE
    /\ last' = Ran("connect", <<ConnectErrorDialog(signature)>>, <<ConnectCall(FALSE)>>)
    /\ UNCHANGED <<window, presetVars, running, start_timestamp, formVars, buttonVars,
                   threads, stopping, config_file, now>>

\* self.rpc.connect() raises: self.rpc already refers to the new object
ConnectRaises(signature) ==
    /\ ClientIdGiven
    /\ rpc' = "unconnected"
    /\ last' = Ran("connect", <<ConnectErrorDialog(signature)>>, <<ConnectCall(FALSE)>>)
    /\ UNCHANGED <<window, presetVars, connected, running, start_timestamp, formVars, buttonVars,
                   threads, stopping, config_file, now>>

\* update_presence() called before self.connected and self.start_timestamp are set
ConnectUpdate_BeforeFlags(updated, written) ==
    update_presence(connected, rpc, start_timestamp, updated, written)

\* connect's call of update_presence(), after self.rpc, self.connected and
\* self.start_timestamp are assigned
ConnectUpdate(updated, written) ==
    update_presence(TRUE, "open", now, updated, written)

\* self.rpc.connect() returns
ConnectSucceeds(updated, written1, written2) ==
    LET upd == ConnectUpdate(updated, written1)
    IN  /\ ClientIdGiven
        /\ threads < MaxThreads
        /\ rpc' = "open"
        /\ connected' = TRUE
        /\ start_timestamp' = now
        /\ connect_btn' = FALSE
        /\ disconnect_btn' = TRUE
        /\ update_btn' = TRUE
        /\ running' = TRUE
        /\ threads' = threads + 1
        /\ UNCHANGED stopping
        /\ config_file' = IF written2 THEN JsonFile(get_current_config) ELSE upd.file
        /\ last' = Did("connect", upd.dialogs \o <<"Connected">>,
                       <<ConnectCall(TRUE)>> \o upd.calls, "",
                       upd.writes \o <<written2>>)
        /\ UNCHANGED <<window, presetVars, formVars, now>>

connect ==
    \/ ConnectBlank
    \/ \E signature \in BOOLEAN : ConnectConstructorRaises(signature)
    \/ \E signature \in BOOLEAN : ConnectRaises(signature)
    \/ \E updated, written1, written2 \in BOOLEAN :
          ConnectSucceeds(updated, written1, written2)

----------------------------------------------------------------------------
(* disconnect *)

CloseCall(ok) == [fn |-> "close", ok |-> ok]

\* `if self.rpc and self.connected`
ClosesOnDisconnect == rpc # "None" /\ connected

\* disconnect leaving the Update button enabled
DisconnectCompletes_UpdateStaysEnabled ==
    /\ running' = FALSE
    /\ connected' = FALSE
    /\ rpc' = "None"
    /\ connect_btn' = TRUE
    /\ disconnect_btn' = FALSE
    /\ last' = Ran("disconnect", <<"Disconnected">>,
                   IF rpc # "None" /\ connected THEN <<[fn |-> "close", ok |-> TRUE]>> ELSE <<>>)
    /\ stopping' = threads
    /\ UNCHANGED <<window, presetVars, start_timestamp, formVars, threads, config_file, now,
                   update_btn>>

\* the body of the `try` runs to its end
DisconnectCompletes ==
    /\ running' = FALSE
    /\ connected' = FALSE
    /\ rpc' = "None"
    /\ connect_btn' = TRUE
    /\ disconnect_btn' = FALSE
    /\ update_btn' = FALSE
    /\ last' = Ran("disconnect", <<"Disconnected">>,
                   IF ClosesOnDisconnect THEN <<CloseCall(TRUE)>> ELSE <<>>)
    /\ UNCHANGED <<window, presetVars, start_timestamp, formVars, threads, config_file, now>>
    /\ stopping' = threads

\* self.rpc.close() raises and the handle is dropped all the same
DisconnectCloseRaises_ReleasesHandle ==
    /\ rpc # "None" /\ connected
    /\ running' = FALSE
    /\ rpc' = "None"
    /\ last' = Ran("disconnect", <<"DisconnectError">>, <<[fn |-> "close", ok |-> FALSE]>>)
    /\ stopping' = threads
    /\ UNCHANGED <<window, presetVars, connected, start_timestamp, formVars, buttonVars, threads,
                   config_file, now>>

\* self.rpc.close() raises: the rest of the `try` is skipped
DisconnectCloseRaises ==
    /\ ClosesOnDisconnect
    /\ running' = FALSE
    /\ rpc' = "close_raised"
    /\ last' = Ran("disconnect", <<"DisconnectError">>, <<CloseCall(FALSE)>>)
    /\ UNCHANGED <<window, presetVars, connected, start_timestamp, formVars, buttonVars, threads,
                   config_file, now>>
    /\ stopping' = threads

disconnect ==
    \/ DisconnectCompletes
    \/ DisconnectCloseRaises

----------------------------------------------------------------------------
(* update_presence, from the Update button *)

\* the `except` of update_presence also dropping the session
UpdatePresence_DropsSessionOnError ==
    \E updated, written \in BOOLEAN :
        LET upd == update_presence(connected, rpc, start_timestamp, updated, written)
        IN  /\ config_file' = upd.file
            /\ last' = Did("update", upd.dialogs, upd.calls, "", upd.writes)
            /\ connected' = (connected /\ upd.dialogs # <<"UpdateFailed">>)
            /\ UNCHANGED <<window, presetVars, rpc, running, start_timestamp, formVars, buttonVars,
                           threads, stopping, now>>

UpdatePresence ==
    \E updated, written \in BOOLEAN :
        LET upd == update_presence(connected, rpc, start_timestamp, updated, written)
        IN  /\ config_file' = upd.file
            /\ last' = Did("update", upd.dialogs, upd.calls, "", upd.writes)
            /\ UNCHANGED <<window, presetVars, session, formVars, buttonVars, threads, stopping, now>>

----------------------------------------------------------------------------
(* keep_alive: one poll of `while self.running and self.connected` by one thread *)

\* old: the thread that polls was started before the latest disconnect
KeepAlivePoll ==
    /\ \E old \in BOOLEAN :
          /\ IF old THEN stopping > 0 ELSE threads > stopping
          /\ IF running /\ connected
             THEN UNCHANGED <<threads, stopping>>
             ELSE /\ threads' = threads - 1
                  /\ stopping' = IF old THEN stopping - 1 ELSE stopping
    /\ last' = Idle
    /\ UNCHANGED <<window, presetVars, session, formVars, buttonVars, config_file, now>>

----------------------------------------------------------------------------
(* save_preset and load_preset *)

\* save_preset() emptying the form once the preset is written
SavePreset_ClearsForm(name, written) ==
    /\ IF name = NoName
       THEN /\ last' = Did("save_preset", <<>>, <<>>, name, <<>>)
            /\ UNCHANGED <<presetVars, formVars>>
       ELSE IF written
       THEN /\ preset_files' = [preset_files EXCEPT ![name] = JsonFile(get_current_config)]
            /\ saved' = [saved EXCEPT ![name] = Form]
            /\ entries' = EmptyEntries
            /\ UNCHANGED <<show_timestamp, timestamp_type>>
            /\ last' = Did("save_preset", <<"PresetSaved">>, <<>>, name, <<>>)
       ELSE /\ last' = Did("save_preset", <<"SaveFailed">>, <<>>, name, <<>>)
            /\ UNCHANGED <<presetVars, formVars>>
    /\ UNCHANGED <<session, buttonVars, threads, stopping, config_file, now, window>>

\* save_preset() when the file dialog returns name; written: open() and json.dump work
SavePreset(name, written) ==
    /\ IF name = NoName
       THEN /\ last' = Did("save_preset", <<>>, <<>>, name, <<>>)
            /\ UNCHANGED presetVars
       ELSE IF written
       THEN /\ preset_files' = [preset_files EXCEPT ![name] = JsonFile(get_current_config)]
            /\ saved' = [saved EXCEPT ![name] = Form]
            /\ last' = Did("save_preset", <<"PresetSaved">>, <<>>, name, <<>>)
       ELSE /\ last' = Did("save_preset", <<"SaveFailed">>, <<>>, name, <<>>)
            /\ UNCHANGED presetVars
    /\ UNCHANGED <<session, formVars, buttonVars, threads, stopping, config_file, now, window>>

\* apply_config(preset) of a preset that is no dict: the first Entry is emptied, then
\* preset.get raises
ApplyRaises == [entries EXCEPT !["client_id"] = <<>>]

\* the form load_preset() leaves when the file dialog returns name
Loaded(name) ==
    IF name = NoName \/ preset_files[name].kind \in {"absent", "corrupt"}
    THEN [entries |-> entries, show_timestamp |-> show_timestamp,
          timestamp_type |-> timestamp_type]
    ELSE IF preset_files[name].kind = "nonobject"
    THEN [entries |-> ApplyRaises, show_timestamp |-> show_timestamp,
          timestamp_type |-> timestamp_type]
    ELSE apply_config(preset_files[name].value)

\* the dialogs of load_preset(): none when the file dialog is cancelled, the success
\* dialog when apply_config returns, the error dialog of the `except` otherwise
LoadDialogs(name) ==
    IF name = NoName THEN <<>>
    ELSE IF preset_files[name].kind = "json" THEN <<"PresetLoaded">>
    ELSE <<"LoadFailed">>

LoadPreset(name) ==
    /\ entries' = Loaded(name).entries
    /\ show_timestamp' = Loaded(name).show_timestamp
    /\ timestamp_type' = Loaded(name).timestamp_type
    /\ last' = Did("load_preset", LoadDialogs(name), <<>>, name, <<>>)
    /\ UNCHANGED <<session, buttonVars, threads, stopping, config_file, now, window, presetVars>>

save_preset == \E name \in PresetNames \cup {NoName} : \E written \in BOOLEAN :
                   SavePreset(name, written)

load_preset == \E name \in PresetNames \cup {NoName} : LoadPreset(name)

----------------------------------------------------------------------------
(* clear_all, from the Clear All button *)

\* the list of clear_all with self.client_id added to it
Cleared_WithClientId == EntryKeys

\* the twelve entries in the list of clear_all
Cleared ==
    {"details", "state", "large_key", "large_text", "small_key", "small_text",
     "button1_text", "button1_url", "button2_text", "button2_url",
     "party_size", "party_max"}

\* clear_all() when the user answers the question with confirmed
ClearAll(confirmed) ==
    /\ IF confirmed
       THEN /\ entries' = [k \in EntryKeys |-> IF k \in Cleared THEN <<>> ELSE entries[k]]
            /\ show_timestamp' = FALSE
       ELSE UNCHANGED <<entries, show_timestamp>>
    /\ last' = Ran("clear_all",
                   <<IF confirmed THEN "ClearConfirmed" ELSE "ClearDeclined">>, <<>>)
    /\ UNCHANGED <<session, timestamp_type, buttonVars, threads, stopping, config_file,
                   now, window, presetVars>>

clear_all == \E confirmed \in BOOLEAN : ClearAll(confirmed)

----------------------------------------------------------------------------
(* on_closing and main: the window is closed, and the program is started again *)

\* `if self.connected` and the user answers no
ClosingDeclined ==
    /\ connected
    /\ last' = Ran("on_closing", <<"ExitConfirm">>, <<>>)
    /\ UNCHANGED <<session, formVars, buttonVars, threads, stopping, config_file, now, window,
                   presetVars>>

\* not connected: root.destroy()
ClosingDisconnected ==
    /\ ~connected
    /\ window' = "destroyed"
    /\ threads' = 0
    /\ stopping' = 0
    /\ last' = Ran("on_closing", <<>>, <<>>)
    /\ UNCHANGED <<session, formVars, buttonVars, config_file, now, presetVars>>

\* connected and the user answers yes: disconnect(), whose close() returns or
\* raises, then root.destroy(); the daemon threads end with the process
ClosingConnected(closed) ==
    /\ connected
    /\ running' = FALSE
    /\ IF rpc # "None" /\ ~closed
       THEN /\ rpc' = "close_raised"
            /\ last' = Ran("on_closing", <<"ExitConfirm", "DisconnectError">>,
                           <<CloseCall(FALSE)>>)
            /\ UNCHANGED <<connected, buttonVars>>
       ELSE /\ rpc' = "None"
            /\ connected' = FALSE
            /\ connect_btn' = TRUE
            /\ disconnect_btn' = FALSE
            /\ update_btn' = FALSE
            /\ last' = Ran("on_closing", <<"ExitConfirm", "Disconnected">>,
                           IF rpc # "None" THEN <<CloseCall(TRUE)>> ELSE <<>>)
    /\ window' = "destroyed"
    /\ threads' = 0
    /\ stopping' = 0
    /\ UNCHANGED <<start_timestamp, formVars, config_file, now, presetVars>>

on_closing ==
    /\ window = "open"
    /\ \/ ClosingDeclined
       \/ ClosingDisconnected
       \/ \E closed \in BOOLEAN : ClosingConnected(closed)

\* the program is started again: __init__, create_ui and main() up to root.mainloop()
main ==
    /\ window = "destroyed"
    /\ window' = "open"
    /\ rpc' = "None"
    /\ connected' = FALSE
    /\ running' = FALSE
    /\ start_timestamp' = NoTimestamp
    /\ entries' = StartupForm(config_file).entries
    /\ show_timestamp' = StartupForm(config_file).show_timestamp
    /\ timestamp_type' = StartupForm(config_file).timestamp_type
    /\ connect_btn' = TRUE
    /\ update_btn' = FALSE
    /\ disconnect_btn' = FALSE
    /\ threads' = 0
    /\ stopping' = 0
    /\ last' = Started
    /\ UNCHANGED <<config_file, now, presetVars>>

----------------------------------------------------------------------------
(* The program: handlers run from the buttons, which run them only when enabled *)

ClickConnect == window = "open" /\ connect_btn /\ connect
ClickUpdate == window = "open" /\ update_btn /\ UpdatePresence
ClickDisconnect == window = "open" /\ disconnect_btn /\ disconnect

Next ==
    \/ EditEntry
    \/ Tick
    \/ ClickConnect
    \/ ClickUpdate
    \/ ClickDisconnect
    \/ KeepAlivePoll

Spec == Init /\ [][Next]_vars

(* The session's methods called directly, in any order *)

NextAPI ==
    \/ EditEntry
    \/ Tick
    \/ connect
    \/ UpdatePresence
    \/ disconnect
    \/ KeepAlivePoll

\* the files the methods are called beside
APIFiles ==
    {NoFile, CorruptFile, JsonFile([client_id |-> <<" ">>])}
    \cup {JsonFile(f) : f \in TextForms \cup TimestampForms \cup {ScenarioForm}}

InitAPI == InitWith(APIFiles, {NoPresets})

SpecAPI == InitAPI /\ [][NextAPI]_vars

(* The program with its preset dialogs and its window closed and opened again, *)
(* beside a few files                                                           *)

AppFiles == {NoFile, CorruptFile, JsonFile(ScenarioForm)}

\* preset files left by earlier runs and by the user: none, one that is no JSON, one
\* that is JSON and no object, and one that holds some of the fields
AppPresets ==
    { [n \in PresetNames |-> IF n = "a.json" THEN p[1] ELSE p[2]] :
        p \in {<<NoFile, NonObjectFile>>,
               <<CorruptFile, JsonFile([client_id |-> <<"1">>, state |-> Solo,
                                        show_timestamp |-> TRUE])>>} }

InitApp == InitWith(AppFiles, AppPresets)

ClickSave == window = "open" /\ save_preset
ClickLoad == window = "open" /\ load_preset
ClickClear == window = "open" /\ clear_all

NextApp ==
    \/ ClickConnect
    \/ ClickUpdate
    \/ ClickDisconnect
    \/ KeepAlivePoll
    \/ ClickSave
    \/ ClickLoad
    \/ ClickClear
    \/ on_closing
    \/ main

SpecApp == InitApp /\ [][NextApp]_vars

----------------------------------------------------------------------------
(* Vocabulary of the properties *)

\* the calls to Presence.update made by the handler of the latest step
UpdateCalls == SelectSeq(last.calls, LAMBDA c : c.fn = "update")

ConnectCalls == SelectSeq(last.calls, LAMBDA c : c.fn = "connect")

CloseCalls == SelectSeq(last.calls, LAMBDA c : c.fn = "close")

Shown(dialog) == \E i \in 1..Len(last.dialogs) : last.dialogs[i] = dialog

Blank(text) == Strip(text) = <<>>

\* the latest step ran connect, and Presence.connect returned
ConnectSucceeded ==
    last.op = "connect" /\ ConnectCalls # <<>> /\ ConnectCalls[1].ok

\* the latest step ran connect, and Presence(client_id) or Presence.connect raised
ConnectFailed ==
    last.op = "connect" /\ (Shown("DiscordNotRunning") \/ Shown("ConnectFailed"))

\* the latest step ran update_presence while the session was Connected
UpdatedWhileConnected == last.op = "update" /\ last.pre.connected

SessionAsBefore ==
    /\ rpc = last.pre.rpc
    /\ connected = last.pre.connected
    /\ running = last.pre.running
    /\ start_timestamp = last.pre.start_timestamp

----------------------------------------------------------------------------
(* C1: an update issued while Connected with exactly one of party_size and  *)
(* party_max blank after trimming fails with the validation warning, and    *)
(* Presence.update is not called.                                           *)
C1_OneSidedPartyRejected ==
    (/\ UpdatedWhileConnected
     /\ Blank(entries.party_size) # Blank(entries.party_max))
    => (Shown("PartyInvalid") /\ UpdateCalls = <<>>)

(* C2: after disconnect(), also when Presence.close raises, the session is  *)
(* Disconnected: connected is false, rpc is None and running is false.      *)
C2_DisconnectAlwaysDisconnects ==
    last.op = "disconnect" => (~connected /\ rpc = "None" /\ ~running)

(* C3, as stated: a connect whose Presence.connect returns leaves the       *)
(* session Connected with start_timestamp the time of the connect, and      *)
(* calls Presence.update exactly once, with the kwargs of the current form. *)
C3_ConnectForwardsOneUpdate ==
    ConnectSucceeded
    => /\ connected
       /\ start_timestamp = now
       /\ Len(UpdateCalls) = 1
       /\ UpdateCalls[1].kwargs =
             BuildKwargs(entries, show_timestamp, timestamp_type, start_timestamp, now)

(* C3, amended: a connect whose Presence.connect returns leaves the session *)
(* Connected with start_timestamp the time of the connect; it calls         *)
(* Presence.update exactly once, with the kwargs of the current form,       *)
(* unless party_size and party_max are both non-blank and one of them is no *)
(* integer: then it shows the validation warning and calls Presence.update  *)
(* not at all, and the session is Connected all the same.                   *)
C3_ConnectForwardsOneUpdateUnlessPartyInvalid ==
    ConnectSucceeded
    => /\ connected
       /\ rpc = "open"
       /\ start_timestamp = now
       /\ IF /\ ~Blank(entries.party_size) /\ ~Blank(entries.party_max)
             /\ (~IsInt(entries.party_size) \/ ~IsInt(entries.party_max))
          THEN UpdateCalls = <<>> /\ Shown("PartyInvalid")
          ELSE /\ Len(UpdateCalls) = 1
               /\ UpdateCalls[1].kwargs =
                     BuildKwargs(entries, show_timestamp, timestamp_type,
                                 start_timestamp, now)

\* a second session, begun after time has passed, whose connect forwarded its update
C3_Witness ==
    /\ ConnectSucceeded
    /\ Len(UpdateCalls) = 1
    /\ last.pre.start_timestamp # NoTimestamp
    /\ start_timestamp # last.pre.start_timestamp

(* C4: connect with a client id that is empty or only whitespace shows the  *)
(* validation error, calls nothing on the Presence client, and leaves the   *)
(* session Disconnected with rpc, start_timestamp and running as they were. *)
C4_BlankClientIdRejected ==
    (last.op = "connect" /\ Blank(entries.client_id))
    => /\ last.dialogs = <<"ClientIdMissing">>
       /\ last.calls = <<>>
       /\ ~connected
       /\ SessionAsBefore
       /\ threads = last.pre.threads

\* a whitespace-only client id, after an earlier session has set start_timestamp
C4_Witness ==
    /\ last.op = "connect"
    /\ entries.client_id = <<" ">>
    /\ start_timestamp # NoTimestamp

(* C5: when the connect to the Presence client fails, the session stays     *)
(* Disconnected, start_timestamp is unchanged, Presence.update is not       *)
(* called, no keep_alive thread is started, and Presence.connect is called  *)
(* at most once by that connect and by no step other than a connect.        *)
C5_FailedConnectIsTerminal ==
    /\ ConnectFailed
       => /\ ~connected
          /\ start_timestamp = last.pre.start_timestamp
          /\ running = last.pre.running
          /\ UpdateCalls = <<>>
          /\ threads = last.pre.threads
          /\ Len(ConnectCalls) <= 1
          /\ connect_btn
    /\ last.op # "connect" => ConnectCalls = <<>>

\* Presence.connect raised in a connect that follows an earlier session
C5_Witness ==
    /\ ConnectFailed
    /\ ConnectCalls # <<>>
    /\ start_timestamp # NoTimestamp

(* C6: update_presence called while the session is Disconnected shows the   *)
(* not-connected warning and calls nothing; every call of Presence.update   *)
(* is made while connected is true.                                         *)
C6_UpdateOnlyWhileConnected ==
    /\ (last.op = "update" /\ ~last.pre.connected)
       => (last.dialogs = <<"ConnectFirst">> /\ last.calls = <<>>)
    /\ UpdateCalls # <<>>
       => (connected /\ (last.op = "update" => last.pre.connected))

\* update_presence called after a connect that failed
C6_Witness ==
    /\ last.op = "update"
    /\ ~last.pre.connected
    /\ last.pre.rpc = "unconnected"

(* C7: when Presence.update raises, the error is shown and the session      *)
(* stays Connected: connected, rpc, start_timestamp and running are as      *)
(* before, and the Update button still runs update_presence on an open      *)
(* session.                                                                 *)
C7_FailedUpdateKeepsSession ==
    (UpdateCalls # <<>> /\ ~UpdateCalls[1].ok)
    => /\ Shown("UpdateFailed")
       /\ connected
       /\ rpc # "None"
       /\ update_btn
       /\ last.op = "update" => (SessionAsBefore /\ threads = last.pre.threads)

\* Presence.update raised in an update_presence run from the Update button
C7_Witness ==
    /\ last.op = "update"
    /\ UpdateCalls # <<>>
    /\ ~UpdateCalls[1].ok
    /\ running

(* C8: a disconnect() that follows a disconnect() leaves the session        *)
(* Disconnected, calls no Presence.close and changes nothing of the session.*)
C8_SecondDisconnectIsNoOp ==
    [][(last.op = "disconnect" /\ last'.op = "disconnect")
       => (/\ ~connected'
           /\ last'.calls = <<>>
           /\ session' = session)]_vars

(* C9: no kwargs passed to Presence.update hold large_text without          *)
(* large_image or small_text without small_image, and each pair is included *)
(* by its own two fields alone, whatever the other pair holds.              *)
PairIncluded(kwargs, imageKey, textKey, key, text) ==
    /\ (imageKey \in DOMAIN kwargs) <=> ~Blank(key)
    /\ (textKey \in DOMAIN kwargs) <=> (~Blank(key) /\ ~Blank(text))

C9_ImageTextOnlyWithImage ==
    \A i \in 1..Len(UpdateCalls) :
        LET kwargs == UpdateCalls[i].kwargs
        IN  /\ "large_text" \in DOMAIN kwargs => "large_image" \in DOMAIN kwargs
            /\ "small_text" \in DOMAIN kwargs => "small_image" \in DOMAIN kwargs
            /\ PairIncluded(kwargs, "large_image", "large_text",
                            entries.large_key, entries.large_text)
            /\ PairIncluded(kwargs, "small_image", "small_text",
                            entries.small_key, entries.small_text)

\* the small pair is sent and the large text is dropped for want of its key
C9_Witness ==
    /\ UpdateCalls # <<>>
    /\ ~Blank(entries.large_text)
    /\ DOMAIN UpdateCalls[1].kwargs = {"small_image", "small_text"}

(* C10: kwargs passed to Presence.update hold party_size only if party_size *)
(* and party_max both parse as integers, and then it is that pair; if one   *)
(* of the two is given and does not parse, update_presence shows the        *)
(* validation warning and calls nothing.                                    *)
C10_PartyParsedOrAborted ==
    /\ \A i \in 1..Len(UpdateCalls) :
          LET kwargs == UpdateCalls[i].kwargs
          IN  "party_size" \in DOMAIN kwargs
              => /\ IsInt(entries.party_size) /\ IsInt(entries.party_max)
                 /\ kwargs.party_size =
                       <<IntOf(entries.party_size), IntOf(entries.party_max)>>
    /\ (/\ UpdatedWhileConnected
        /\ \/ (~Blank(entries.party_size) /\ ~IsInt(entries.party_size))
           \/ (~Blank(entries.party_max) /\ ~IsInt(entries.party_max)))
       => (Shown("PartyInvalid") /\ last.calls = <<>>)

----------------------------------------------------------------------------
(* Vocabulary of the button slots *)

\* the buttons of a payload
Buttons(kwargs) == IF "buttons" \in DOMAIN kwargs THEN kwargs.buttons ELSE <<>>

SlotLabel(n) == IF n = 1 THEN entries.button1_text ELSE entries.button2_text
SlotUrl(n) == IF n = 1 THEN entries.button1_url ELSE entries.button2_url

\* both fields of slot n are non-blank after trimming
SlotQualifies(n) == ~Blank(SlotLabel(n)) /\ ~Blank(SlotUrl(n))

\* where slot n stands in the buttons list, slot 1 before slot 2
SlotPosition(n) == IF n = 2 /\ SlotQualifies(1) THEN 2 ELSE 1

\* slot n is in the payload
SlotSent(kwargs, n) == SlotQualifies(n) /\ SlotPosition(n) <= Len(Buttons(kwargs))

\* the label sent for the label given: cut to its first LabelLimit characters
\* when it is longer, passed unchanged when it is not
LabelCut(given, sent) ==
    /\ Len(given) > LabelLimit
       => (sent = SubSeq(given, 1, LabelLimit) /\ Len(sent) = LabelLimit)
    /\ Len(given) <= LabelLimit => sent = given
    /\ Len(sent) <= LabelLimit

(* C11, as stated: for every button slot in the payload, a label of more    *)
(* than 32 characters (of 40, say) is sent as its first 32 characters and a *)
(* label of at most 32 characters is sent unchanged; no label sent is       *)
(* longer than 32 characters.                                               *)
C11_LabelCutTo32 ==
    \A i \in 1..Len(UpdateCalls) : \A n \in {1, 2} :
        SlotSent(UpdateCalls[i].kwargs, n)
        => LabelCut(SlotLabel(n), Buttons(UpdateCalls[i].kwargs)[SlotPosition(n)].label)

(* C11, amended: the same of the label with its leading and trailing        *)
(* whitespace removed: the trimmed label is sent as its first 32 characters *)
(* when it is longer than 32, and unchanged when it is not; no label sent   *)
(* is longer than 32 characters.                                            *)
C11_TrimmedLabelCutTo32 ==
    \A i \in 1..Len(UpdateCalls) : \A n \in {1, 2} :
        SlotSent(UpdateCalls[i].kwargs, n)
        => LabelCut(Strip(SlotLabel(n)),
                    Buttons(UpdateCalls[i].kwargs)[SlotPosition(n)].label)

\* a label of forty characters that begins with a space was sent as 32 characters
C11_Witness ==
    /\ UpdateCalls # <<>>
    /\ entries.button1_text = PaddedLongLabel
    /\ Len(Buttons(UpdateCalls[1].kwargs)) = 2
    /\ Len(Buttons(UpdateCalls[1].kwargs)[1].label) = LabelLimit

(* C12: a button slot is in the payload if and only if its label and its    *)
(* url are both non-blank after trimming; the buttons list holds at most    *)
(* two entries, slot 1 before slot 2, and the payload has no buttons key    *)
(* when no slot qualifies.                                                  *)
C12_ButtonsIffBothGiven ==
    \A i \in 1..Len(UpdateCalls) :
        LET kwargs == UpdateCalls[i].kwargs
            count == (IF SlotQualifies(1) THEN 1 ELSE 0)
                     + (IF SlotQualifies(2) THEN 1 ELSE 0)
        IN  /\ ("buttons" \in DOMAIN kwargs) <=> (count > 0)
            /\ Len(Buttons(kwargs)) = count
            /\ count <= 2
            /\ \A n \in {1, 2} :
                  SlotQualifies(n)
                  => Buttons(kwargs)[SlotPosition(n)].url = Strip(SlotUrl(n))

\* slot 1 has a label and no url, and slot 2 alone was sent
C12_Witness ==
    /\ UpdateCalls # <<>>
    /\ ~Blank(entries.button1_text)
    /\ Blank(entries.button1_url)
    /\ Len(Buttons(UpdateCalls[1].kwargs)) = 1
    /\ Buttons(UpdateCalls[1].kwargs)[1].url = <<"v">>

(* C13: in every update forwarded, each of details, state, large_image and  *)
(* small_image is in the payload if and only if its field is non-blank      *)
(* after trimming; and the form details "Playing", state "Solo", party size *)
(* "2", party max "5", all else blank and no timestamp, yields exactly      *)
(* details "Playing", state "Solo", party_size [2, 5].                      *)
ScenarioTyped ==
    /\ show_timestamp = FALSE
    /\ \A k \in EntryKeys \ {"client_id"} :
          entries[k] = CASE k = "details" -> Playing
                         [] k = "state" -> Solo
                         [] k = "party_size" -> <<"2">>
                         [] k = "party_max" -> <<"5">>
                         [] OTHER -> <<>>

C13_TextAndImagesIffGiven ==
    \A i \in 1..Len(UpdateCalls) :
        LET kwargs == UpdateCalls[i].kwargs
        IN  /\ ("details" \in DOMAIN kwargs) <=> ~Blank(entries.details)
            /\ ("state" \in DOMAIN kwargs) <=> ~Blank(entries.state)
            /\ ("large_image" \in DOMAIN kwargs) <=> ~Blank(entries.large_key)
            /\ ("small_image" \in DOMAIN kwargs) <=> ~Blank(entries.small_key)
            /\ ScenarioTyped
               => kwargs = [details |-> Playing, state |-> Solo, party_size |-> <<2, 5>>]

\* the update of the scenario, from the Update button
C13_Witness ==
    /\ last.op = "update"
    /\ UpdateCalls # <<>>
    /\ ScenarioTyped

(* C14, as stated: details and state, when in the payload, are the fields'  *)
(* values character for character, leading and trailing whitespace          *)
(* included.                                                                *)
C14_TextVerbatim ==
    \A i \in 1..Len(UpdateCalls) :
        LET kwargs == UpdateCalls[i].kwargs
        IN  /\ "details" \in DOMAIN kwargs => kwargs.details = entries.details
            /\ "state" \in DOMAIN kwargs => kwargs.state = entries.state

(* C14, amended: details and state, when in the payload, are the fields'    *)
(* values with their leading and trailing whitespace removed, and otherwise *)
(* character for character.                                                 *)
C14_TextTrimmed ==
    \A i \in 1..Len(UpdateCalls) :
        LET kwargs == UpdateCalls[i].kwargs
        IN  /\ "details" \in DOMAIN kwargs => kwargs.details = Strip(entries.details)
            /\ "state" \in DOMAIN kwargs => kwargs.state = Strip(entries.state)

\* details typed with a space on either side was sent without them
C14_Witness ==
    /\ UpdateCalls # <<>>
    /\ entries.details = <<" ", "h", "i", " ">>
    /\ "details" \in DOMAIN UpdateCalls[1].kwargs
    /\ UpdateCalls[1].kwargs.details = <<"h", "i">>

(* C15: every payload forwarded holds neither start nor end when            *)
(* show_timestamp is false; start, the time of the most recent connect that *)
(* succeeded, and no end when show_timestamp is true and the type is        *)
(* elapsed; end, the time of the update plus 3600 seconds, and no start     *)
(* when show_timestamp is true and the type is not elapsed.                 *)
TimestampsAsSet ==
    /\ ConnectSucceeded => start_timestamp = now
    /\ \A i \in 1..Len(UpdateCalls) :
          LET kwargs == UpdateCalls[i].kwargs
          IN  /\ ~show_timestamp => DOMAIN kwargs \cap {"start", "end"} = {}
              /\ (show_timestamp /\ timestamp_type = "elapsed")
                 => /\ DOMAIN kwargs \cap {"start", "end"} = {"start"}
                    /\ kwargs.start = start_timestamp
              /\ (show_timestamp /\ timestamp_type # "elapsed")
                 => /\ DOMAIN kwargs \cap {"start", "end"} = {"end"}
                    /\ kwargs.end = now + RemainingHorizon

\* start_timestamp is assigned by a connect that succeeds, and by nothing else
StartSetByConnectOnly == start_timestamp' # start_timestamp => ConnectSucceeded'

C15_TimestampByTypeAndTime == []TimestampsAsSet /\ [][StartSetByConnectOnly]_vars

\* an elapsed timestamp sent by an update made after the time of the connect
C15_Witness ==
    /\ last.op = "update"
    /\ UpdateCalls # <<>>
    /\ show_timestamp
    /\ timestamp_type = "elapsed"
    /\ now # start_timestamp

----------------------------------------------------------------------------
(* Vocabulary of the files *)

\* the latest step ran update_presence from the Update button, and Presence.update returned
UpdateSucceeded == last.op = "update" /\ UpdateCalls # <<>> /\ UpdateCalls[1].ok

\* every write of the config file tried by the latest step worked
WritesWorked == \A i \in 1..Len(last.writes) : last.writes[i]

\* the file holds every field of the Session Config
FullFile(file) == file.kind = "json" /\ DOMAIN file.value = DOMAIN get_current_config

(* C16: a form saved as a preset under a name and then loaded from the      *)
(* preset of that name is the form that was saved, in every field: the      *)
(* thirteen Entry fields, show_timestamp and timestamp_type, whatever the   *)
(* fields held before the load.                                             *)
C16_PresetRoundTrip ==
    (/\ last.op = "load_preset"
     /\ last.file # NoName
     /\ saved[last.file] # NotSaved)
    => (Shown("PresetLoaded") /\ Form = saved[last.file])

\* the preset of one name loaded while the other name holds another form
C16_Witness ==
    /\ last.op = "load_preset"
    /\ last.file = "b.json"
    /\ saved["b.json"] # NotSaved
    /\ saved["a.json"] # NotSaved
    /\ saved["a.json"] # saved["b.json"]
    /\ entries.client_id # <<>>

(* C17: load_preset of a file that is missing or is not JSON shows no error *)
(* to the user, and loads nothing.                                          *)
C17_MissingPresetLoadsSilently ==
    (/\ last.op = "load_preset"
     /\ last.file # NoName
     /\ preset_files[last.file].kind \in {"absent", "corrupt"})
    => last.dialogs = <<>>

(* C18: save_preset with an empty name shows a validation error to the user *)
(* and writes no file.                                                      *)
C18_EmptyNameRejected ==
    [][(last'.op = "save_preset" /\ last'.file = NoName)
       => (/\ last'.dialogs # <<>>
           /\ preset_files' = preset_files
           /\ config_file' = config_file)]_vars

(* C19, as stated: after every connect and every update that succeeds the   *)
(* config file holds the full current Session Config; the file is written   *)
(* by nothing else, so a failed update from the Update button leaves it as  *)
(* it was; and at startup the form is the config the file holds.            *)
StartedFromFile ==
    (last.op = "main" /\ FullFile(config_file)) => get_current_config = config_file.value

FileAfterEverySuccess ==
    (ConnectSucceeded \/ UpdateSucceeded) => config_file = JsonFile(get_current_config)

FileWrittenBySuccessOnly ==
    /\ config_file' # config_file => (ConnectSucceeded' \/ UpdateSucceeded')
    /\ (last'.op = "update" /\ ~UpdateSucceeded') => config_file' = config_file

FileAfterWrittenSuccess ==
    (ConnectSucceeded \/ UpdateSucceeded)
    => /\ last.writes # <<>>
       /\ WritesWorked => config_file = JsonFile(get_current_config)
       /\ UpdateSucceeded => last.dialogs = <<>>

C20_StartsEmptyWithoutFile ==
    (last.op = "main" /\ config_file.kind \in {"absent", "corrupt"})
    => /\ entries = [k \in EntryKeys |-> <<>>]
       /\ show_timestamp = FALSE
       /\ timestamp_type = "elapsed"
       /\ last.dialogs = <<>>
       /\ window = "open"
       /\ ~connected /\ rpc = "None" /\ ~running
       /\ connect_btn /\ ~update_btn /\ ~disconnect_btn

\* the program started again beside a file that is not JSON, after a run that saved a preset
C20_Witness ==
    /\ last.op = "main"
    /\ config_file = CorruptFile
    /\ saved["a.json"] # NotSaved


----------------------------------------------------------------------------
(* C21: At most one keep_alive loop is alive at any time, however the clicks  *)
(* on Connect and Disconnect and the polls of the loop are interleaved.       *)
(* The program breaks it: a loop that has not polled since Disconnect finds   *)
(* both flags true again after the next Connect, which starts a second loop.  *)
C21_OneKeepAliveLoop == threads <= 1

(* C22: A keep_alive loop that was alive when disconnect cleared self.running *)
(* returns at its next poll of the flags, whatever the user does after the    *)
(* disconnect: while such a loop is alive, the condition of its `while` is    *)
(* false. The program breaks it: Connect sets both flags again before the     *)
(* loop has polled.                                                           *)
C22_StoppedLoopExitsAtNextPoll == stopping > 0 => ~(running /\ connected)


(* C23: update_presence from the Update button, connect with its first        *)
(* update_presence, and save_preset leave every entry, show_timestamp and     *)
(* timestamp_type as they were, whether they succeed or fail.                 *)
C23_ConfigKeptByUpdateConnectSave ==
    [][last'.op \in {"update", "connect", "save_preset"} => formVars' = formVars]_vars

C23_Witness ==
    /\ last.op = "save_preset"
    /\ Shown("SaveFailed")
    /\ connected
    /\ entries["details"] # <<>>


(* C24: In every reachable state, if self.connected is true then self.rpc is  *)
(* not None and self.start_timestamp is not None.                             *)
C24_ConnectedHasHandleAndStart ==
    connected => (rpc # "None" /\ start_timestamp # NoTimestamp)

C24_Witness ==
    /\ connected
    /\ rpc = "close_raised"
    /\ last.op = "disconnect"
    /\ start_timestamp # NoTimestamp

(* C25: After every handler the Connect button is enabled exactly when        *)
(* self.connected is false, and the Update and Disconnect buttons exactly     *)
(* when it is true; so connect never runs while connected, and never while    *)
(* self.rpc refers to a Presence whose connect() has returned.                *)
C25_ButtonsFollowConnected ==
    /\ connect_btn = ~connected
    /\ update_btn = connected
    /\ disconnect_btn = connected
    /\ last.op = "connect" => (~last.pre.connected /\ last.pre.rpc \in {"None", "unconnected"})

C25_Witness ==
    /\ last.op = "connect"
    /\ ConnectSucceeded
    /\ last.pre.rpc = "unconnected"
    /\ ~connect_btn /\ update_btn /\ disconnect_btn


(* C26: The calls made on one Presence object are ordered: one connect, then  *)
(* updates only if that connect returned, then at most one close; no update   *)
(* and no second close follows a close, and no close or update is made on an  *)
(* object whose connect raised. A handler other than connect calls the object *)
(* self.rpc referred to when it began, so it may call it only while that      *)
(* object is connected and not yet closed. The program breaks it after a      *)
(* close() that raised, as in C2: the object stays in self.rpc with           *)
(* self.connected true, and Update and Disconnect call it again.              *)
C26_CallsOrderedOnHandle ==
    /\ last.op = "connect" =>
          /\ Len(ConnectCalls) <= 1
          /\ CloseCalls = <<>>
          /\ last.calls # <<>> => last.calls[1].fn = "connect"
          /\ UpdateCalls # <<>> => (ConnectCalls # <<>> /\ ConnectCalls[1].ok)
    /\ last.op # "connect" =>
          /\ ConnectCalls = <<>>
          /\ Len(CloseCalls) <= 1
          /\ CloseCalls # <<>> => UpdateCalls = <<>>
          /\ last.calls # <<>> => last.pre.rpc = "open"


(* C27: When load_preset fails, because the file cannot be read, is not JSON, *)
(* or is JSON and no object, it shows the error dialog and every entry,       *)
(* show_timestamp and timestamp_type keep the value they had before it. The   *)
(* program breaks it for JSON that is no object: apply_config has emptied the *)
(* Client ID entry when preset.get raises.                                    *)
C27_FailedLoadKeepsConfig ==
    [][(/\ last'.op = "load_preset"
        /\ last'.file # NoName
        /\ preset_files[last'.file].kind \in {"absent", "corrupt", "nonobject"})
       => (/\ last'.dialogs = <<"LoadFailed">>
           /\ formVars' = formVars)]_vars


(* C28: clear_all, when the user confirms, empties details, state, the four   *)
(* image entries, the four button entries and the two party entries and sets  *)
(* show_timestamp to false; it leaves the Client ID entry, timestamp_type,    *)
(* self.connected, self.rpc and self.start_timestamp as they were and calls   *)
(* nothing on the Presence object. When the user declines, nothing changes.   *)
C28_ClearBlanksFormOnly ==
    [][last'.op = "clear_all" =>
          /\ last'.calls = <<>>
          /\ entries'["client_id"] = entries["client_id"]
          /\ UNCHANGED <<timestamp_type, connected, rpc, start_timestamp>>
          /\ IF last'.dialogs = <<"ClearConfirmed">>
             THEN /\ \A k \in EntryKeys \ {"client_id"} : entries'[k] = <<>>
                  /\ show_timestamp' = FALSE
             ELSE UNCHANGED <<session, formVars, buttonVars, threads, config_file,
                              window, presetVars>>]_vars

C28_Witness ==
    /\ last.op = "clear_all"
    /\ last.dialogs = <<"ClearConfirmed">>
    /\ connected
    /\ entries["client_id"] # <<>>
    /\ entries["details"] = <<>>
    /\ config_file.kind = "json" /\ config_file.value["details"] # <<>>

====
